---- MODULE Spec2Model ----
(***************************************************************************)
(* A model of exampleScripts/backup.py: the content-addressed backup run   *)
(* (backup), the manifest file it writes, the purge pass and restore.      *)
(* Paths, digests and manifest lines are sequences of one-character        *)
(* strings, so that slicing (hsh[:2]), joining, formatting, strip() and    *)
(* split("\t") are computed as the code computes them.                     *)
(*                                                                         *)
(* And of exampleScripts/graphs/minimum_spanning_tree_prims2.py: the       *)
(* binary heap MinPriorityQueue (SpecQueue) and prims_algo (SpecPrims).    *)
(* The two programs share no state: each specification runs one of them    *)
(* and leaves the variables of the other as they start.                    *)
(***************************************************************************)
EXTENDS Integers, Sequences, FiniteSets, TLC

VARIABLES
    files,            \* the file system outside the store: path -> [data, readable]
    store,            \* blob files under dest: <<shard dir, name>> -> content
    shardDirs,        \* the sub-directories of dest
    manifestFile,     \* dest/manifest: whether it exists, and its lines on disk
    pc,               \* position of the backup run: idle, scan, write, purge
    args,             \* the arguments of the current (or last) run
    pending,          \* sources not yet walked
    walk,             \* files of the current source not yet visited
    manifest,         \* backup's dict manifest: filename -> hash
    collision_check,  \* backup's dict collision_check: hash -> filename
    outLines,         \* manifest lines still to be written by write_lines
    result,           \* how the last operation ended
    startStore,       \* the blobs the store held when the current run started
    cpFailed,         \* whether a cp of the current run failed
    prev,             \* the backup run completed immediately before the current one
    runs,             \* backup runs started
    faults,           \* failures and interruptions injected so far
    restores          \* restores performed

VARIABLES
    queue,            \* a MinPriorityQueue driven by its caller: [heap, position_map, elements]
    extracted,        \* the (elem, weight) pair the last extract_min popped, <<>> before
    graph,            \* prims_algo's argument: a GraphUndirectedWeighted
    dist,             \* prims_algo's dict dist
    parent,           \* prims_algo's dict parent
    priority_queue,   \* prims_algo's MinPriorityQueue
    node,             \* prims_algo's local node
    ppc               \* position of prims_algo: idle, begin, first, loop, done, error

\* the state of backup.py
backup_vars == <<files, store, shardDirs, manifestFile, pc, args, pending, walk,
                 manifest, collision_check, outLines, result, startStore,
                 cpFailed, prev, runs, faults, restores>>

\* the state of minimum_spanning_tree_prims2.py
graphs == <<queue, extracted, graph, dist, parent, priority_queue, node, ppc>>

vars == <<files, store, shardDirs, manifestFile, pc, args, pending, walk,
          manifest, collision_check, outLines, result, startStore,
          cpFailed, prev, runs, faults, restores,
          queue, extracted, graph, dist, parent, priority_queue, node, ppc>>

----------------------------------------------------------------------------
(* Bounds *)

MaxRuns == 2
MaxFaults == 1
MaxRestores == 1

----------------------------------------------------------------------------
(* Characters and strings *)

Tab == "\t"
Slash == "/"

\* the characters used, in ASCII order
Alphabet == <<Tab, " ", "/", "1", "2", "a", "b", "c", "d", "t", "x", "y", "z">>

Ord(ch) == CHOOSE i \in 1..Len(Alphabet) : Alphabet[i] = ch

Whitespace == {Tab, " "}

RECURSIVE StrLess(_, _)
StrLess(s, t) ==
    IF t = <<>> THEN FALSE
    ELSE IF s = <<>> THEN TRUE
    ELSE IF Head(s) # Head(t) THEN Ord(Head(s)) < Ord(Head(t))
    ELSE StrLess(Tail(s), Tail(t))

\* pattern occurs somewhere in s (re.search of a literal pattern)
Search(pat, s) ==
    \E i \in 1..(Len(s) - Len(pat) + 1) : SubSeq(s, i, i + Len(pat) - 1) = pat

RECURSIVE LStrip(_)
LStrip(s) ==
    IF s # <<>> /\ Head(s) \in Whitespace THEN LStrip(Tail(s)) ELSE s

RECURSIVE RStrip(_)
RStrip(s) ==
    IF s # <<>> /\ s[Len(s)] \in Whitespace
    THEN RStrip(SubSeq(s, 1, Len(s) - 1)) ELSE s

Strip(s) == LStrip(RStrip(s))

\* s.split("\t"): the fields between tabs
RECURSIVE SplitTab(_)
SplitTab(s) ==
    IF \A i \in 1..Len(s) : s[i] # Tab THEN <<s>>
    ELSE LET i == CHOOSE k \in 1..Len(s) :
                     s[k] = Tab /\ \A j \in 1..(k - 1) : s[j] # Tab
         IN <<SubSeq(s, 1, i - 1)>> \o SplitTab(SubSeq(s, i + 1, Len(s)))

\* path.__div__ is os.path.join: an absolute right-hand side replaces the left
Join(a, b) ==
    IF b # <<>> /\ Head(b) = Slash THEN b
    ELSE IF a = <<>> \/ a[Len(a)] = Slash THEN a \o b
    ELSE a \o <<Slash>> \o b

----------------------------------------------------------------------------
(* The universe of the model *)

RootA == <<"/", "a">>
RootB == <<"b">>
PathAX == <<"/", "a", "/", "x">>
PathAY == <<"/", "a", "/", "y">>
PathBZ == <<"b", "/", "z">>
SourcePaths == {PathAX, PathAY, PathBZ}
TargetDir == <<"/", "t">>

Contents == {1, 2, 3}
Truncated == 0

Absent == [exists |-> FALSE, lines |-> <<>>]
OnDisk(lines) == [exists |-> TRUE, lines |-> lines]

\* the source trees a behaviour may start from
File(data, readable) == [data |-> data, readable |-> readable]

\* the source trees a behaviour may start from: /a/x with content 1, /a/y
\* with any content or unreadable, b/z with the digest of /a/x and another
\* content, or with another digest
SourceTrees ==
    {t \in [SourcePaths -> [data : Contents, readable : BOOLEAN]] :
        /\ t[PathAX] = File(1, TRUE)
        /\ t[PathAY].readable \/ t[PathAY].data = 1
        /\ t[PathBZ].readable /\ t[PathBZ].data \in {2, 3}}

SourceLists == {<<RootA>>, <<RootB>>, <<RootA, RootB>>}
\* no pattern, or two of which the second is found in /a/y
PatternLists == {<<>>, << <<"t">>, <<"y">> >>}

----------------------------------------------------------------------------
(* Helpers of backup.py *)

\* sha256sum of a content.  Contents 1 and 2 stand for two byte strings with
\* the same digest, the case the collision check exists for.
Sha256(data) ==
    CASE data \in {1, 2} -> <<"a", "b", "1">>
      [] data = 3 -> <<"c", "d", "2">>
      [] OTHER -> <<"a", "b", "2">>

\* file_hash raises when sha256sum exits non-zero (check_output)
HashRaises(fn) == ~files[fn].readable

file_hash(fn) == Sha256(files[fn].data)

\* a comparison of digests instead of contents
files_identical_by_hash(f1, f2) ==
    /\ files[f1].readable /\ files[f2].readable
    /\ Sha256(files[f1].data) = Sha256(files[f2].data)

\* cmp -s f1 f2 exits 0
files_identical(f1, f2) ==
    /\ files[f1].readable /\ files[f2].readable
    /\ files[f1].data = files[f2].data

\* only the first test is tried
make_predicate_first(tests, fn) == tests # <<>> /\ Search(tests[1], fn)

\* make_predicate(tests)(fn): some test is found in fn
make_predicate(tests, fn) == \E i \in 1..Len(tests) : Search(tests[i], fn)

\* dest / hsh[:2] / hsh, relative to dest
BlobPath(hsh) == <<SubSeq(hsh, 1, 2), hsh>>

EmptyDict == [k \in {} |-> <<>>]

Put(d, k, v) == (k :> v) @@ d

\* source.walkfiles(): the files below the source directory
IsUnder(dir, p) ==
    /\ Len(p) > Len(dir) + 1
    /\ SubSeq(p, 1, Len(dir) + 1) = dir \o <<Slash>>

walkfiles(source) == {p \in DOMAIN files : IsUnder(source, p)}

\* sorted(manifest.items()), as a sequence of <<fn, hsh>>
RECURSIVE SortedItems(_)
SortedItems(d) ==
    IF DOMAIN d = {} THEN <<>>
    ELSE LET fn == CHOOSE k \in DOMAIN d :
                       \A o \in DOMAIN d \ {k} : StrLess(k, o)
         IN << <<fn, d[fn]>> >> \o SortedItems([k \in DOMAIN d \ {fn} |-> d[k]])

\* "%s\t%s" % (hsh, fn)
FormatLine(item) == item[2] \o <<Tab>> \o item[1]

ManifestLines(d) ==
    LET items == SortedItems(d)
    IN [i \in 1..Len(items) |-> FormatLine(items[i])]

----------------------------------------------------------------------------
(* The state after construction: nothing backed up yet *)

NoArgs == [sources |-> <<>>, excludes |-> <<>>, purge |-> FALSE]
NoPrev == [kind |-> "none", args |-> NoArgs, lines |-> <<>>, blobs |-> {},
           cpFailed |-> FALSE]

\* Python's None
None == "None"

\* lines 82-85: MinPriorityQueue.__init__
EmptyQueue == [heap |-> <<>>, position_map |-> <<>>, elements |-> 0]

\* lines 194-196: GraphUndirectedWeighted.__init__; connections is a dict of
\* dicts, kept as the sequence of its keys and, per key, the sequence of
\* its (neighbour, weight) items, both in insertion order
EmptyGraph == [keys |-> <<>>, connections |-> <<>>, nodes |-> 0]

\* nothing of minimum_spanning_tree_prims2.py runs
GraphsIdle ==
    /\ queue = EmptyQueue
    /\ extracted = <<>>
    /\ graph = EmptyGraph
    /\ dist = <<>>
    /\ parent = <<>>
    /\ priority_queue = EmptyQueue
    /\ node = None
    /\ ppc = "idle"

Init ==
    /\ files \in SourceTrees
    /\ store = EmptyDict
    /\ shardDirs = {}
    /\ manifestFile = Absent
    /\ pc = "idle"
    /\ args = NoArgs
    /\ pending = <<>>
    /\ walk = {}
    /\ manifest = EmptyDict
    /\ collision_check = EmptyDict
    /\ outLines = <<>>
    /\ result = "none"
    /\ startStore = EmptyDict
    /\ cpFailed = FALSE
    /\ prev = NoPrev
    /\ runs = 0
    /\ faults = 0
    /\ restores = 0
    /\ GraphsIdle

----------------------------------------------------------------------------
(* backup(sources, excludes, dest, purge) *)

disk == <<store, shardDirs, manifestFile>>
locals == <<manifest, collision_check>>
counters == <<runs, faults, restores>>

\* the process ends: its dictionaries and iterators are gone
EndRun(how) ==
    /\ pc' = "idle"
    /\ result' = how
    /\ pending' = <<>>
    /\ walk' = {}
    /\ manifest' = EmptyDict
    /\ collision_check' = EmptyDict
    /\ outLines' = <<>>

\* lines 45-50: the dictionaries are created empty
StartBackup(sources, excludes, purge) ==
    /\ pc = "idle"
    /\ runs < MaxRuns
    /\ runs' = runs + 1
    /\ pc' = "scan"
    /\ args' = [sources |-> sources, excludes |-> excludes, purge |-> purge]
    /\ pending' = sources
    /\ walk' = {}
    /\ manifest' = EmptyDict
    /\ collision_check' = EmptyDict
    /\ outLines' = <<>>
    /\ result' = "running"
    /\ startStore' = store
    /\ cpFailed' = FALSE
    /\ prev' = IF result = "done"
               THEN [kind |-> "backup", args |-> args, lines |-> manifestFile.lines,
                     blobs |-> DOMAIN store, cpFailed |-> cpFailed]
               ELSE NoPrev
    /\ UNCHANGED <<graphs, files, disk, faults, restores>>

\* lines 52-54: the next source directory is walked
NextSource ==
    /\ pc = "scan"
    /\ walk = {}
    /\ pending # <<>>
    /\ walk' = walkfiles(Head(pending))
    /\ pending' = Tail(pending)
    /\ UNCHANGED <<graphs, files, disk, pc, args, locals, outLines, result,
                   startStore, cpFailed, prev, counters>>

Visit(fn) ==
    /\ pc = "scan"
    /\ fn \in walk
    /\ walk' = walk \ {fn}

Continue ==
    UNCHANGED <<graphs, files, disk, pc, args, pending, locals, outLines, result,
                startStore, cpFailed, prev, counters>>

\* lines 55-56
SkipExcluded(fn) ==
    /\ Visit(fn)
    /\ make_predicate(args.excludes, fn)
    /\ Continue

\* the exception of file_hash is not caught and ends the run
SkipUnhashedAborts(fn) ==
    /\ Visit(fn)
    /\ ~make_predicate(args.excludes, fn)
    /\ HashRaises(fn)
    /\ pc' = "idle"
    /\ result' = "error"
    /\ pending' = <<>>
    /\ manifest' = EmptyDict
    /\ collision_check' = EmptyDict
    /\ outLines' = <<>>
    /\ UNCHANGED <<graphs, files, disk, args, startStore, cpFailed, prev, counters>>

\* lines 58-61
SkipUnhashed(fn) ==
    /\ Visit(fn)
    /\ ~make_predicate(args.excludes, fn)
    /\ HashRaises(fn)
    /\ Continue

Hashed(fn) ==
    /\ Visit(fn)
    /\ ~make_predicate(args.excludes, fn)
    /\ ~HashRaises(fn)

\* lines 63-64: the condition under which line 66 raises
IsCollision(fn) ==
    /\ file_hash(fn) \in DOMAIN collision_check
    /\ ~files_identical(fn, collision_check[file_hash(fn)])

\* lines 63-66: the exception ends the run
HashCollision(fn) ==
    /\ Hashed(fn)
    /\ IsCollision(fn)
    /\ pc' = "idle"
    /\ result' = "collision"
    /\ pending' = <<>>
    /\ manifest' = EmptyDict
    /\ collision_check' = EmptyDict
    /\ outLines' = <<>>
    /\ UNCHANGED <<graphs, files, disk, args, startStore, cpFailed, prev, counters>>

\* a duplicate is dropped instead of recorded
RegisterFirstOnly(fn) ==
    /\ manifest' = IF file_hash(fn) \in DOMAIN collision_check THEN manifest
                   ELSE Put(manifest, fn, file_hash(fn))
    /\ collision_check' = Put(collision_check, file_hash(fn), fn)

\* lines 80-81
Register(fn) ==
    /\ manifest' = Put(manifest, fn, file_hash(fn))
    /\ collision_check' = Put(collision_check, file_hash(fn), fn)

\* line 69 false: the blob is there, nothing is copied
StoreExisting(fn) ==
    /\ Hashed(fn)
    /\ ~IsCollision(fn)
    /\ BlobPath(file_hash(fn)) \in DOMAIN store
    /\ Register(fn)
    /\ UNCHANGED <<graphs, files, disk, pc, args, pending, outLines, result,
                   startStore, cpFailed, prev, counters>>

\* the blob is copied whether or not it exists
NeedsCopyAlways(fn) ==
    /\ Hashed(fn)
    /\ ~IsCollision(fn)

\* line 69
NeedsCopy(fn) ==
    /\ Hashed(fn)
    /\ ~IsCollision(fn)
    /\ BlobPath(file_hash(fn)) \notin DOMAIN store

\* lines 70-71
Makedirs(fn) == shardDirs' = shardDirs \cup {BlobPath(file_hash(fn))[1]}

\* lines 69-81, cp exits 0
CopyBlob(fn) ==
    /\ NeedsCopy(fn)
    /\ Makedirs(fn)
    /\ store' = Put(store, BlobPath(file_hash(fn)), files[fn].data)
    /\ Register(fn)
    /\ UNCHANGED <<graphs, files, manifestFile, pc, args, pending, outLines, result,
                   startStore, cpFailed, prev, counters>>

\* what a failed cp leaves at blob_path: nothing, or a truncated file
CpLeaves(fn, left) ==
    IF left = "partial"
    THEN store' = Put(store, BlobPath(file_hash(fn)), Truncated)
    ELSE store' = store

\* lines 75-81, cp exits non-zero: subprocess.call returns the exit status,
\* nothing is raised and nothing looks at the status
AfterFailedCopy(fn) == Register(fn)

CopyFails(fn, left) ==
    /\ NeedsCopy(fn)
    /\ faults < MaxFaults
    /\ faults' = faults + 1
    /\ Makedirs(fn)
    /\ CpLeaves(fn, left)
    /\ AfterFailedCopy(fn)
    /\ cpFailed' = TRUE
    /\ UNCHANGED <<graphs, files, manifestFile, pc, args, pending, outLines, result,
                   startStore, prev, runs, restores>>

\* lines 76-78: subprocess.call itself raises (cp cannot be started)
CopyRaises(fn) ==
    /\ NeedsCopy(fn)
    /\ faults < MaxFaults
    /\ faults' = faults + 1
    /\ Makedirs(fn)
    /\ cpFailed' = TRUE
    /\ UNCHANGED <<graphs, files, store, manifestFile, pc, args, pending, locals,
                   outLines, result, startStore, prev, runs, restores>>

\* line 71 raises: nothing catches it
MakedirsRaises(fn) ==
    /\ NeedsCopy(fn)
    /\ BlobPath(file_hash(fn))[1] \notin shardDirs
    /\ faults < MaxFaults
    /\ faults' = faults + 1
    /\ pc' = "idle"
    /\ result' = "error"
    /\ pending' = <<>>
    /\ manifest' = EmptyDict
    /\ collision_check' = EmptyDict
    /\ outLines' = <<>>
    /\ UNCHANGED <<graphs, files, disk, args, startStore, cpFailed, prev, runs, restores>>

\* the process is killed while cp is writing the blob
KilledInCopy(fn) ==
    /\ NeedsCopy(fn)
    /\ faults < MaxFaults
    /\ faults' = faults + 1
    /\ Makedirs(fn)
    /\ store' = Put(store, BlobPath(file_hash(fn)), Truncated)
    /\ pc' = "idle"
    /\ result' = "interrupted"
    /\ pending' = <<>>
    /\ manifest' = EmptyDict
    /\ collision_check' = EmptyDict
    /\ outLines' = <<>>
    /\ UNCHANGED <<graphs, files, manifestFile, args, startStore, cpFailed, prev, runs, restores>>

\* the file is opened for appending: what it held stays
OpenManifestAppend ==
    /\ pc = "scan"
    /\ walk = {}
    /\ pending = <<>>
    /\ pc' = "write"
    /\ manifestFile' = OnDisk(manifestFile.lines)
    /\ outLines' = ManifestLines(manifest)
    /\ UNCHANGED <<graphs, files, store, shardDirs, args, pending, walk, locals,
                   result, startStore, cpFailed, prev, counters>>

\* lines 83-85, write_lines opens dest/manifest for writing: it is truncated
OpenManifest ==
    /\ pc = "scan"
    /\ walk = {}
    /\ pending = <<>>
    /\ pc' = "write"
    /\ manifestFile' = OnDisk(<<>>)
    /\ outLines' = ManifestLines(manifest)
    /\ UNCHANGED <<graphs, files, store, shardDirs, args, pending, walk, locals,
                   result, startStore, cpFailed, prev, counters>>

\* lines 84-85: one line reaches the file
WriteLine ==
    /\ pc = "write"
    /\ outLines # <<>>
    /\ manifestFile' = OnDisk(Append(manifestFile.lines, Head(outLines)))
    /\ outLines' = Tail(outLines)
    /\ UNCHANGED <<graphs, files, store, shardDirs, pc, args, pending, walk, locals,
                   result, startStore, cpFailed, prev, counters>>

\* lines 84-85: write_lines raises (the disk is full, the file cannot be
\* written); nothing catches it and the run ends
WriteRaises ==
    /\ pc = "write"
    /\ faults < MaxFaults
    /\ faults' = faults + 1
    /\ EndRun("error")
    /\ UNCHANGED <<graphs, files, disk, args, startStore, cpFailed, prev, runs, restores>>

\* the purge is reached while lines are still to be written
CloseManifestEarly ==
    /\ pc = "write"
    /\ IF args.purge
       THEN /\ pc' = "purge"
            /\ UNCHANGED <<pending, walk, locals, outLines, result>>
       ELSE EndRun("done")
    /\ UNCHANGED <<graphs, files, disk, args, startStore, cpFailed, prev, counters>>

\* line 88 false: the run is done
CloseManifest ==
    /\ pc = "write"
    /\ outLines = <<>>
    /\ IF args.purge
       THEN /\ pc' = "purge"
            /\ UNCHANGED <<pending, walk, locals, outLines, result>>
       ELSE EndRun("done")
    /\ UNCHANGED <<graphs, files, disk, args, startStore, cpFailed, prev, counters>>

\* the pass looks at the first sub-directory only
PurgedFirstDirOnly(blobs, keep) ==
    {b \in blobs :
        (\A d \in shardDirs : d = b[1] \/ StrLess(b[1], d)) => b[2] \in keep}

\* lines 89-92: the blobs the purge pass leaves
Purged(blobs, keep) ==
    {b \in blobs : b[1] \in shardDirs => b[2] \in keep}

PurgePass ==
    /\ pc = "purge"
    /\ store' = [b \in Purged(DOMAIN store, DOMAIN collision_check) |-> store[b]]
    /\ EndRun("done")
    /\ UNCHANGED <<graphs, files, shardDirs, manifestFile, args, startStore, cpFailed, prev,
                   counters>>

\* the process is killed (or interrupted from the keyboard) between two steps
Interrupt ==
    /\ pc # "idle"
    /\ faults < MaxFaults
    /\ faults' = faults + 1
    /\ EndRun("interrupted")
    /\ UNCHANGED <<graphs, files, disk, args, startStore, cpFailed, prev, runs, restores>>

Backup ==
    \/ \E s \in SourceLists, e \in PatternLists, p \in BOOLEAN : StartBackup(s, e, p)
    \/ NextSource
    \/ \E fn \in walk : SkipExcluded(fn)
    \/ \E fn \in walk : SkipUnhashed(fn)
    \/ \E fn \in walk : HashCollision(fn)
    \/ \E fn \in walk : StoreExisting(fn)
    \/ \E fn \in walk : CopyBlob(fn)
    \/ \E fn \in walk, left \in {"nothing", "partial"} : CopyFails(fn, left)
    \/ \E fn \in walk : CopyRaises(fn)
    \/ \E fn \in walk : MakedirsRaises(fn)
    \/ \E fn \in walk : KilledInCopy(fn)
    \/ OpenManifest
    \/ WriteLine
    \/ WriteRaises
    \/ CloseManifest
    \/ PurgePass
    \/ Interrupt

----------------------------------------------------------------------------
(* restore(manifest, dest, subset) *)

\* line 143: line.strip().split("\t")
ParseLine(line) == SplitTab(Strip(line))

\* the <<hsh, fn>> pairs line 143 unpacks from a manifest file
Entries(lines) ==
    {[fn |-> ParseLine(lines[i])[2], hsh |-> ParseLine(lines[i])[1]] :
        i \in {j \in 1..Len(lines) : Len(ParseLine(lines[j])) = 2}}

\* lines 137-140: an empty subset matches everything
matches(subset, fn) == subset = <<>> \/ make_predicate(subset, fn)

\* lines 142-149 over the lines left; ok is FALSE when a line raised
RECURSIVE RestoreLines(_, _, _)
RestoreLines(lines, subset, fs) ==
    IF lines = <<>> THEN [fs |-> fs, ok |-> TRUE]
    ELSE LET parts == ParseLine(Head(lines))
         IN IF Len(parts) # 2 THEN [fs |-> fs, ok |-> FALSE]
            ELSE LET hsh == parts[1]
                     fn == parts[2]
                 IN IF ~matches(subset, fn)
                    THEN RestoreLines(Tail(lines), subset, fs)
                    ELSE IF BlobPath(hsh) \notin DOMAIN store
                    THEN [fs |-> fs, ok |-> FALSE]
                    ELSE RestoreLines(Tail(lines), subset,
                             Put(fs, Join(TargetDir, fn),
                                 File(store[BlobPath(hsh)], TRUE)))

Restore(subset) ==
    /\ pc = "idle"
    /\ restores < MaxRestores
    /\ manifestFile.exists
    /\ restores' = restores + 1
    /\ LET r == RestoreLines(manifestFile.lines, subset, files)
       IN /\ files' = r.fs
          /\ result' = IF r.ok THEN "restored" ELSE "restore_error"
    /\ args' = [sources |-> <<>>, excludes |-> subset, purge |-> FALSE]
    /\ UNCHANGED <<graphs, disk, pc, pending, walk, locals, outLines, startStore,
                   cpFailed, prev, runs, faults>>

Next ==
    \/ Backup
    \/ \E subset \in PatternLists : Restore(subset)

Spec == Init /\ [][Next]_vars

----------------------------------------------------------------------------
(* Vocabulary of the properties *)

\* fn was reached by the walk of the last run
Scanned(fn) ==
    /\ fn \in DOMAIN files
    /\ \E i \in 1..Len(args.sources) : IsUnder(args.sources[i], fn)

\* and it was not excluded and could be hashed
Eligible(fn) ==
    /\ Scanned(fn)
    /\ ~make_predicate(args.excludes, fn)
    /\ files[fn].readable

BlobsWith(st, data) == {b \in DOMAIN st : st[b] = data}

SameDigestEntries(f1, f2) ==
    \E e1, e2 \in Entries(manifestFile.lines) :
        e1.fn = f1 /\ e2.fn = f2 /\ e1.hsh = e2.hsh

\* a backup run has just completed
Completed == pc = "idle" /\ result = "done"

----------------------------------------------------------------------------
(* C1 *)

DuplicatePair(f1, f2) ==
    /\ f1 # f2
    /\ Eligible(f1) /\ Eligible(f2)
    /\ files[f1].data = files[f2].data

----------------------------------------------------------------------------
(* C2 *)

\* C2, as claimed: a manifest a run has persisted never records a file under
\* a digest whose blob is a copy of another content.
C2_NoSilentCollision ==
    Completed =>
      \A e \in Entries(manifestFile.lines) :
        (/\ e.fn \in DOMAIN files
         /\ BlobPath(e.hsh) \in DOMAIN store
         /\ store[BlobPath(e.hsh)] \in Contents)
          => store[BlobPath(e.hsh)] = files[e.fn].data

----------------------------------------------------------------------------
(* C3 *)

\* the step visits fn, whose digest is that of a file already recorded in
\* this run with another content
VisitsColliding(fn) ==
    /\ pc = "scan"
    /\ fn \in walk /\ fn \notin walk'
    /\ result' # "interrupted"
    /\ ~make_predicate(args.excludes, fn)
    /\ ~HashRaises(fn)
    /\ \E g \in DOMAIN manifest :
          manifest[g] = file_hash(fn) /\ files[g].data # files[fn].data

\* C3: when a run reaches a file with the digest and not the content of a
\* file it has recorded, that step ends the run: the manifest file and the
\* store are left as they were, and nothing is left to walk or to write.
C3_CollisionAborts ==
    [][\A fn \in DOMAIN files :
         VisitsColliding(fn)
           => /\ pc' = "idle" /\ result' = "collision"
              /\ manifestFile' = manifestFile
              /\ store' = store
              /\ pending' = <<>>
              /\ outLines' = <<>>]_vars

\* a run has aborted on a collision and the manifest of the run before it
\* is still on disk, whole
C3_Witness ==
    /\ pc = "idle" /\ result = "collision"
    /\ manifestFile.exists /\ manifestFile.lines # <<>>

----------------------------------------------------------------------------
(* C4 *)

\* target_dir/original_path
UnderTarget(fn) ==
    TargetDir \o <<Slash>> \o (IF fn # <<>> /\ Head(fn) = Slash THEN Tail(fn) ELSE fn)

\* the step is a restore, without a subset, of the manifest a backup run
\* has just completed without a failed cp
RestoresAll ==
    /\ Completed /\ ~cpFailed
    /\ restores' = restores + 1
    /\ args'.excludes = <<>>

\* C4, as claimed, for a run in which every cp succeeded: the restore leaves, for every manifest entry, a file
\* under the target directory at the entry's path, with the content the
\* source file had when the run backed it up.
C4_RoundTrip ==
    [][RestoresAll =>
         \A e \in Entries(manifestFile.lines) :
            /\ UnderTarget(e.fn) \in DOMAIN files'
            /\ files'[UnderTarget(e.fn)].data = files[e.fn].data]_vars

----------------------------------------------------------------------------
(* C5, C6 *)

ReferencedDigests == {e.hsh : e \in Entries(manifestFile.lines)}

\* C5, as claimed: after a completed run with purge, every digest the
\* persisted manifest references has its blob in the store.
C5_ReferencedBlobsPresent ==
    (Completed /\ args.purge) =>
      \A h \in ReferencedDigests : BlobPath(h) \in DOMAIN store

\* C6: the purge pass of a run leaves exactly the blobs it found whose name
\* is a digest the persisted manifest references; every other blob is gone.
C6_PurgeCompleteness ==
    [][(pc = "purge" /\ pc' = "idle" /\ result' = "done") =>
         DOMAIN store' = {b \in DOMAIN store : b[2] \in ReferencedDigests}]_vars

\* a run with purge has completed, has removed a blob and has kept one
C6_Witness ==
    /\ Completed /\ args.purge
    /\ DOMAIN startStore \ DOMAIN store # {}
    /\ DOMAIN store # {}
    /\ \A b \in DOMAIN store : b[2] \in ReferencedDigests

----------------------------------------------------------------------------
(* C7 *)

\* the run just completed follows, with nothing between, a completed run
\* with the same sources and exclusions
SecondOfTwo ==
    /\ Completed
    /\ prev.kind = "backup"
    /\ prev.args.sources = args.sources
    /\ prev.args.excludes = args.excludes

----------------------------------------------------------------------------
(* C8 *)

\* the step is a visit of a file whose cp failed, and the scan goes on
CopyFailedStep == pc = "scan" /\ pc' = "scan" /\ faults' = faults + 1

\* C8, as claimed: a failed copy does not add the file to the manifest and
\* removes no blob written before.
C8_FailedCopyNotRegistered ==
    [][CopyFailedStep =>
         /\ DOMAIN manifest' = DOMAIN manifest
         /\ \A b \in DOMAIN store :
               b \in DOMAIN store' /\ store'[b] = store[b]]_vars

----------------------------------------------------------------------------
(* C9 *)

\* C9, as claimed: the manifest file changes only by becoming the complete
\* manifest of the current run, so that it is at every moment absent, the
\* complete manifest of an earlier run or that of the current run.
C9_ManifestNeverPartial ==
    [][manifestFile' # manifestFile =>
         manifestFile' = OnDisk(ManifestLines(manifest))]_vars

----------------------------------------------------------------------------
(* C10 *)

\* C10, as claimed: no blob file under its final name holds a truncated copy.
C10_NoPartialBlob == \A b \in DOMAIN store : store[b] # Truncated

----------------------------------------------------------------------------
(* C11 *)

\* some exclusion pattern of the run is found somewhere in the path
MatchesExclusion(fn) ==
    \E i \in 1..Len(args.excludes) :
        \E k \in 1..Len(fn), l \in 1..Len(fn) :
            k <= l /\ SubSeq(fn, k, l) = args.excludes[i]

\* the step of a run visits fn
Visits(fn) ==
    /\ pc = "scan"
    /\ fn \in walk /\ fn \notin walk'
    /\ result' # "interrupted"

\* C11: a file whose path is matched by an exclusion pattern is never in the
\* manifest dictionary nor in a manifest a run persists, and its visit writes
\* no blob; a run without patterns and without a failed cp records every
\* readable file it walks.
C11_Exclusion ==
    /\ [](pc # "idle" => \A fn \in DOMAIN manifest : ~MatchesExclusion(fn))
    /\ [](Completed =>
            \A e \in Entries(manifestFile.lines) : ~MatchesExclusion(e.fn))
    /\ [](Completed /\ args.excludes = <<>> /\ ~cpFailed =>
            \A fn \in DOMAIN files :
                Scanned(fn) /\ files[fn].readable
                  => \E e \in Entries(manifestFile.lines) : e.fn = fn)
    /\ [][\A fn \in DOMAIN files :
            Visits(fn) /\ MatchesExclusion(fn)
              => manifest' = manifest /\ store' = store]_vars

\* a run that excluded /a/y has completed and recorded /a/x
C11_Witness ==
    /\ Completed
    /\ MatchesExclusion(PathAY) /\ Scanned(PathAY) /\ files[PathAY].readable
    /\ \E e \in Entries(manifestFile.lines) : e.fn = PathAX
    /\ \A e \in Entries(manifestFile.lines) : e.fn # PathAY

----------------------------------------------------------------------------
(* C12 *)

\* C12: the visit of a file that is not excluded and whose digest cannot be
\* computed changes neither the manifest dictionary, nor collision_check,
\* nor the store, and the scan goes on with the files and sources left; a
\* manifest a run persists has no entry for such a file.
C12_UnhashedSkipped ==
    /\ [](Completed =>
            \A fn \in DOMAIN files :
                Scanned(fn) /\ ~files[fn].readable
                  => \A e \in Entries(manifestFile.lines) : e.fn # fn)
    /\ [][\A fn \in DOMAIN files :
            Visits(fn) /\ ~MatchesExclusion(fn) /\ ~files[fn].readable
              => /\ manifest' = manifest
                 /\ collision_check' = collision_check
                 /\ store' = store
                 /\ pc' = "scan"
                 /\ walk' = walk \ {fn}
                 /\ pending' = pending]_vars

\* a run has walked the unreadable /a/y, has completed and has recorded
\* /a/x and nothing for /a/y
C12_Witness ==
    /\ Completed
    /\ Scanned(PathAY) /\ ~MatchesExclusion(PathAY) /\ ~files[PathAY].readable
    /\ \E e \in Entries(manifestFile.lines) : e.fn = PathAX
    /\ \A e \in Entries(manifestFile.lines) : e.fn # PathAY

----------------------------------------------------------------------------
(* C13 *)

\* the step is a restore
RestoreStep == pc = "idle" /\ restores' = restores + 1

\* the subset of the restore selects the path
Selected(subset, fn) ==
    \/ subset = <<>>
    \/ \E i \in 1..Len(subset) :
          \E k \in 1..Len(fn), l \in 1..Len(fn) :
              k <= l /\ SubSeq(fn, k, l) = subset[i]

\* C13, as claimed: a restore copies every selected entry whose blob is in
\* the store to its place, whether or not the blob of another entry is
\* missing.
C13_MissingBlobSkipped ==
    [][RestoreStep =>
         \A e \in Entries(manifestFile.lines) :
            (Selected(args'.excludes, e.fn) /\ BlobPath(e.hsh) \in DOMAIN store)
              => /\ Join(TargetDir, e.fn) \in DOMAIN files'
                 /\ files'[Join(TargetDir, e.fn)].data = store[BlobPath(e.hsh)]]_vars

----------------------------------------------------------------------------
(* C14 *)

\* the restore step creates the file p or changes it
Written(p) ==
    /\ p \in DOMAIN files'
    /\ (p \notin DOMAIN files \/ files'[p] # files[p])

\* C14, as claimed: a restore that runs to its end leaves a file at
\* target_dir/original_path for every selected entry, and creates or
\* changes no file outside the target directory.
C14_OnlyUnderTarget ==
    [][(RestoreStep /\ result' = "restored") =>
         /\ \A e \in Entries(manifestFile.lines) :
               Selected(args'.excludes, e.fn) => UnderTarget(e.fn) \in DOMAIN files'
         /\ \A p \in DOMAIN files' : Written(p) => IsUnder(TargetDir, p)]_vars

----------------------------------------------------------------------------
(* C15 *)

\* C15, as claimed: a restore copies the blob of every entry its subset
\* selects (all of them when the subset is empty) to the entry's place, and
\* writes the place of no entry the subset leaves out.
C15_SubsetExact ==
    [][RestoreStep =>
         \A e \in Entries(manifestFile.lines) :
            IF Selected(args'.excludes, e.fn)
            THEN BlobPath(e.hsh) \in DOMAIN store
                   => /\ Join(TargetDir, e.fn) \in DOMAIN files'
                      /\ files'[Join(TargetDir, e.fn)].data = store[BlobPath(e.hsh)]
            ELSE ~Written(Join(TargetDir, e.fn))]_vars

----------------------------------------------------------------------------
(* C18 *)

\* the scan ends the run by an exception of the program itself, before the
\* manifest is opened
ScanAborts == pc = "scan" /\ pc' = "idle" /\ result' # "interrupted"

\* C18, as claimed: a run that ends during the scan, other than by being
\* killed, ends by a hash collision; no other failure on a file ends it.
C18_OnlyCollisionAborts ==
    [][ScanAborts => result' = "collision"]_vars

----------------------------------------------------------------------------
(* C19 *)

\* the store holds the content of the file under the file's digest
Stored(fn) ==
    /\ BlobPath(file_hash(fn)) \in DOMAIN store
    /\ store[BlobPath(file_hash(fn))] = files[fn].data

EntryPaths == {e.fn : e \in Entries(manifestFile.lines)}

\* C19, as claimed: the manifest a completed run leaves has one line per
\* path, and its paths are those of the files of this run that were
\* scanned, not excluded, and stored.
C19_ManifestRebuilt ==
    Completed =>
      /\ Cardinality(EntryPaths) = Len(manifestFile.lines)
      /\ EntryPaths = {fn \in DOMAIN files : Eligible(fn) /\ Stored(fn)}

----------------------------------------------------------------------------
(* C20 *)

----------------------------------------------------------------------------
(* minimum_spanning_tree_prims2.py: MinPriorityQueue *)

\* the largest weight pushed, set by update_key, or given to an edge
MaxWeight == 3

Weights == 1..MaxWeight

\* the elements the caller of the queue pushes
Elems == {"a", "b", "c", "d", "e"}

\* sys.maxsize, at a width the checker's integers hold: above the weight of
\* every path of the graphs below
maxsize == 1000000

\* lines 14-43
get_parent_position(position) == (position - 1) \div 2

get_child_left_position(position) == (2 * position) + 1

get_child_right_position(position) == (2 * position) + 2

\* d[k] = v and del d[k] on a dict
SetItem(d, k, v) == [x \in DOMAIN d \cup {k} |-> IF x = k THEN v ELSE d[x]]

DelItem(d, k) == [x \in DOMAIN d \ {k} |-> d[x]]

\* self.heap[position]: Python positions count from 0
At(q, position) == q.heap[position + 1]

\* lines 173-182
_swap_nodes(q, node1_pos, node2_pos) ==
    LET node1_elem == At(q, node1_pos)[1]
        node2_elem == At(q, node2_pos)[1]
        heap == [q.heap EXCEPT ![node1_pos + 1] = At(q, node2_pos),
                               ![node2_pos + 1] = At(q, node1_pos)]
        map1 == SetItem(q.position_map, node1_elem, node2_pos)
    IN [q EXCEPT !.heap = heap,
                 !.position_map = SetItem(map1, node2_elem, node1_pos)]

\* lines 130-142
RECURSIVE _bubble_up(_, _)
_bubble_up(q, elem) ==
    LET curr_pos == q.position_map[elem]
    IN IF curr_pos = 0 THEN q
       ELSE LET parent_position == get_parent_position(curr_pos)
                weight == At(q, curr_pos)[2]
                parent_weight == At(q, parent_position)[2]
            IN IF parent_weight > weight
               THEN _bubble_up(_swap_nodes(q, parent_position, curr_pos), elem)
               ELSE q

\* lines 144-171
RECURSIVE _bubble_down(_, _)
_bubble_down(q, elem) ==
    LET curr_pos == q.position_map[elem]
        weight == At(q, curr_pos)[2]
        child_left_position == get_child_left_position(curr_pos)
        child_right_position == get_child_right_position(curr_pos)
    IN IF /\ child_left_position < q.elements
          /\ child_right_position < q.elements
          /\ At(q, child_right_position)[2] < At(q, child_left_position)[2]
          /\ At(q, child_right_position)[2] < weight
       THEN _bubble_down(_swap_nodes(q, child_right_position, curr_pos), elem)
       ELSE IF child_left_position < q.elements
       THEN IF At(q, child_left_position)[2] < weight
            THEN _bubble_down(_swap_nodes(q, child_left_position, curr_pos), elem)
            ELSE IF child_right_position < q.elements
            THEN IF At(q, child_right_position)[2] < weight
                 THEN _bubble_down(_swap_nodes(q, child_right_position, curr_pos),
                                   elem)
                 ELSE q
            ELSE q
       ELSE q

\* lines 97-102
push(q, elem, weight) ==
    _bubble_up([heap |-> Append(q.heap, <<elem, weight>>),
                position_map |-> SetItem(q.position_map, elem, q.elements),
                elements |-> q.elements + 1],
               elem)

\* lines 104-114: the queue left, and the (elem, weight) pair popped
extract_min(q) ==
    LET q1 == IF q.elements > 1 THEN _swap_nodes(q, 0, q.elements - 1) ELSE q
        popped == q1.heap[Len(q1.heap)]
        q2 == [heap |-> SubSeq(q1.heap, 1, Len(q1.heap) - 1),
               position_map |-> DelItem(q1.position_map, popped[1]),
               elements |-> q1.elements - 1]
    IN [queue |-> IF q2.elements > 0 THEN _bubble_down(q2, q2.heap[1][1]) ELSE q2,
        popped |-> popped]

\* the key always moves up
update_key_up(q, elem, weight) ==
    LET position == q.position_map[elem]
    IN _bubble_up([q EXCEPT !.heap[position + 1] = <<elem, weight>>], elem)

\* lines 116-128
update_key(q, elem, weight) ==
    LET position == q.position_map[elem]
        q1 == [q EXCEPT !.heap[position + 1] = <<elem, weight>>]
    IN IF position > 0
       THEN IF At(q1, get_parent_position(position))[2] > weight
            THEN _bubble_up(q1, elem)
            ELSE _bubble_down(q1, elem)
       ELSE _bubble_down(q1, elem)

\* lines 93-95
is_empty(q) == q.elements = 0

\* the state of backup.py while none of it runs
BackupIdle ==
    /\ files = EmptyDict
    /\ store = EmptyDict
    /\ shardDirs = {}
    /\ manifestFile = Absent
    /\ pc = "idle"
    /\ args = NoArgs
    /\ pending = <<>>
    /\ walk = {}
    /\ manifest = EmptyDict
    /\ collision_check = EmptyDict
    /\ outLines = <<>>
    /\ result = "none"
    /\ startStore = EmptyDict
    /\ cpFailed = FALSE
    /\ prev = NoPrev
    /\ runs = 0
    /\ faults = 0
    /\ restores = 0

prims_vars == <<graph, dist, parent, priority_queue, node, ppc>>

PrimsIdle ==
    /\ graph = EmptyGraph
    /\ dist = <<>>
    /\ parent = <<>>
    /\ priority_queue = EmptyQueue
    /\ node = None
    /\ ppc = "idle"

\* queue = MinPriorityQueue()
InitQueue ==
    /\ BackupIdle
    /\ PrimsIdle
    /\ queue = EmptyQueue
    /\ extracted = <<>>

\* queue.push(elem, weight), for an element that is not in the queue
Push(elem, weight) ==
    /\ elem \notin DOMAIN queue.position_map
    /\ queue' = push(queue, elem, weight)
    /\ UNCHANGED <<extracted, prims_vars, backup_vars>>

\* queue.update_key(elem, weight), for an element of the queue
UpdateKey(elem, weight) ==
    /\ elem \in DOMAIN queue.position_map
    /\ queue' = update_key(queue, elem, weight)
    /\ UNCHANGED <<extracted, prims_vars, backup_vars>>

\* queue.extract_min(), on a queue that is not empty
ExtractMin ==
    /\ ~is_empty(queue)
    /\ queue' = extract_min(queue).queue
    /\ extracted' = extract_min(queue).popped
    /\ UNCHANGED <<prims_vars, backup_vars>>

NextQueue ==
    \/ \E elem \in Elems, weight \in Weights : Push(elem, weight)
    \/ \E elem \in Elems, weight \in Weights : UpdateKey(elem, weight)
    \/ ExtractMin

SpecQueue == InitQueue /\ [][NextQueue]_vars

----------------------------------------------------------------------------
(* minimum_spanning_tree_prims2.py: GraphUndirectedWeighted and prims_algo *)

\* the pairs of nodes add_edge may be called with, in the order of the calls
Pairs == << <<"a", "b">>, <<"a", "c">>, <<"a", "d">>,
            <<"b", "c">>, <<"b", "d">>, <<"c", "d">> >>

\* d[k] = v on a dict kept as the sequence of its (key, value) items: a new
\* key goes to the end, a known key keeps its place
SetOrdered(items, k, v) ==
    IF \E i \in 1..Len(items) : items[i][1] = k
    THEN [i \in 1..Len(items) |-> IF items[i][1] = k THEN <<k, v>> ELSE items[i]]
    ELSE Append(items, <<k, v>>)

\* lines 204-208
add_node(g, n) ==
    IF n \in DOMAIN g.connections THEN g
    ELSE [keys |-> Append(g.keys, n),
          connections |-> SetItem(g.connections, n, <<>>),
          nodes |-> g.nodes + 1]

\* lines 210-217
add_edge(g, node1, node2, weight) ==
    LET g1 == add_node(add_node(g, node1), node2)
        c1 == SetItem(g1.connections, node1,
                      SetOrdered(g1.connections[node1], node2, weight))
        c2 == SetItem(c1, node2, SetOrdered(c1[node2], node1, weight))
    IN [g1 EXCEPT !.connections = c2]

\* the graph built by one add_edge call for every pair that w gives a
\* weight other than 0
RECURSIVE Build(_, _, _)
Build(g, i, w) ==
    IF i > Len(Pairs) THEN g
    ELSE Build(IF w[i] = 0 THEN g
               ELSE add_edge(g, Pairs[i][1], Pairs[i][2], w[i]),
               i + 1, w)

\* the edges of the graph, each the set of its two ends
Edges(g) ==
    UNION {{{n, g.connections[n][i][1]} : i \in 1..Len(g.connections[n])} :
             n \in DOMAIN g.connections}

\* the nodes reached from those of S along the edges of E
RECURSIVE Reach(_, _)
Reach(E, S) ==
    LET S2 == S \cup {m \in UNION E : \E n \in S : {n, m} \in E}
    IN IF S2 = S THEN S ELSE Reach(E, S2)

Connected(V, E) == V = {} \/ Reach(E, {CHOOSE n \in V : TRUE}) = V

\* the connected graphs with positive weights that prims_algo is given
Graphs ==
    {g \in {Build(EmptyGraph, 1, w) : w \in [1..Len(Pairs) -> 0..MaxWeight]} :
        Connected(DOMAIN g.connections, Edges(g))}

InitPrims ==
    /\ BackupIdle
    /\ queue = EmptyQueue
    /\ extracted = <<>>
    /\ graph \in Graphs
    /\ dist = <<>>
    /\ parent = <<>>
    /\ priority_queue = EmptyQueue
    /\ node = None
    /\ ppc = "begin"

\* line 245: the pushes, in the order of dist.items()
RECURSIVE PushAll(_, _, _)
PushAll(q, keys, d) ==
    IF keys = <<>> THEN q
    ELSE PushAll(push(q, Head(keys), d[Head(keys)]), Tail(keys), d)

\* lines 242-247
Setup ==
    /\ ppc = "begin"
    /\ dist' = [n \in DOMAIN graph.connections |-> maxsize]
    /\ parent' = [n \in DOMAIN graph.connections |-> None]
    /\ priority_queue' = PushAll(EmptyQueue, graph.keys, dist')
    /\ ppc' = IF is_empty(priority_queue') THEN "done" ELSE "first"
    /\ UNCHANGED <<graph, node, queue, extracted, backup_vars>>

\* lines 252-256 and 260-264 over the items left of graph.connections[n];
\* ok is FALSE when update_key raised for a neighbour that left the queue
RECURSIVE Relax(_, _, _)
Relax(items, n, st) ==
    IF items = <<>> THEN st
    ELSE LET neighbour == Head(items)[1]
             reached == st.dist[n] + Head(items)[2]
         IN IF st.dist[neighbour] > reached
            THEN IF neighbour \notin DOMAIN st.pq.position_map
                 THEN [st EXCEPT !.dist[neighbour] = reached, !.ok = FALSE]
                 ELSE Relax(Tail(items), n,
                            [dist |-> [st.dist EXCEPT ![neighbour] = reached],
                             pq |-> update_key(st.pq, neighbour, reached),
                             parent |-> [st.parent EXCEPT ![neighbour] = n],
                             ok |-> TRUE])
            ELSE Relax(Tail(items), n, st)

\* the loop over the neighbours of n has run
Relaxed(n, d, q) ==
    LET st == Relax(graph.connections[n], n,
                    [dist |-> d, pq |-> q, parent |-> parent, ok |-> TRUE])
    IN /\ dist' = st.dist
       /\ parent' = st.parent
       /\ priority_queue' = st.pq
       /\ ppc' = IF st.ok THEN "loop" ELSE "error"

\* lines 250-256
First ==
    /\ ppc = "first"
    /\ node' = extract_min(priority_queue).popped[1]
    /\ Relaxed(node', [dist EXCEPT ![node'] = 0], extract_min(priority_queue).queue)
    /\ UNCHANGED <<graph, queue, extracted, backup_vars>>

\* lines 258-264: one pass of the while loop
Loop ==
    /\ ppc = "loop"
    /\ ~is_empty(priority_queue)
    /\ node' = extract_min(priority_queue).popped[1]
    /\ Relaxed(node', dist, extract_min(priority_queue).queue)
    /\ UNCHANGED <<graph, queue, extracted, backup_vars>>

\* line 265
Return ==
    /\ ppc = "loop"
    /\ is_empty(priority_queue)
    /\ ppc' = "done"
    /\ UNCHANGED <<graph, dist, parent, priority_queue, node, queue, extracted,
                   backup_vars>>

NextPrims ==
    \/ Setup
    \/ First
    \/ Loop
    \/ Return

SpecPrims == InitPrims /\ [][NextPrims]_vars

----------------------------------------------------------------------------
(* C16 *)

\* the elements in the queue, and the weight the queue holds for one
Members(q) == {q.heap[i][1] : i \in 1..Len(q.heap)}

WeightOf(q, elem) ==
    q.heap[CHOOSE i \in 1..Len(q.heap) : q.heap[i][1] = elem][2]

\* position_map, elements and heap describe the same queue
Consistent(q) ==
    /\ q.elements = Len(q.heap)
    /\ DOMAIN q.position_map = Members(q)
    /\ \A i \in 1..Len(q.heap) : q.position_map[q.heap[i][1]] = i - 1

\* the step is an extract_min
ExtractStep == queue'.elements < queue.elements

\* C16: after any sequence of push (of distinct elements), update_key and
\* extract_min, an extract_min on a non-empty queue returns an element of
\* the queue whose weight no other element's weight is below, removes that
\* element and no other, leaves the other weights as they were, and makes
\* the queue one shorter.
C16_ExtractMin ==
    /\ [](Consistent(queue))
    /\ [][ExtractStep =>
            /\ extracted'[1] \in Members(queue)
            /\ extracted'[2] = WeightOf(queue, extracted'[1])
            /\ \A elem \in Members(queue) : extracted'[2] <= WeightOf(queue, elem)
            /\ Members(queue') = Members(queue) \ {extracted'[1]}
            /\ \A elem \in Members(queue') :
                  WeightOf(queue', elem) = WeightOf(queue, elem)
            /\ queue'.elements = queue.elements - 1
            /\ Len(queue'.heap) = Len(queue.heap) - 1]_vars

\* extract_min has returned the last pushed of five elements, the only one
\* of weight 1, and left four elements of two different weights
C16_Witness ==
    /\ extracted = <<"e", 1>>
    /\ queue.elements = 4
    /\ {WeightOf(queue, elem) : elem \in Members(queue)} = {2, 3}

----------------------------------------------------------------------------
(* C17 *)

\* the edges (parent[v], v) that prims_algo returns
TreeEdges == {{parent[v], v} : v \in {u \in DOMAIN parent : parent[u] # None}}

\* T is a spanning tree of g
SpanningTree(g, T) ==
    /\ T \subseteq Edges(g)
    /\ Cardinality(T) + 1 = Cardinality(DOMAIN g.connections)
    /\ Connected(DOMAIN g.connections, T)

\* graph.connections[n][m] for the edge {n, m}
EdgeWeight(g, e) ==
    LET n == CHOOSE n \in e : TRUE
        m == CHOOSE m \in e \ {n} : TRUE
        items == g.connections[n]
    IN items[CHOOSE i \in 1..Len(items) : items[i][1] = m][2]

RECURSIVE TotalWeight(_, _)
TotalWeight(g, T) ==
    IF T = {} THEN 0
    ELSE LET e == CHOOSE e \in T : TRUE
         IN EdgeWeight(g, e) + TotalWeight(g, T \ {e})

\* C17, as claimed: prims_algo returns, and for a graph that is not empty
\* the edges (parent[v], v) are a spanning tree of the graph that is no
\* heavier than any other spanning tree of it.
C17_MinimumSpanningTree ==
    /\ ppc # "error"
    /\ (ppc = "done" /\ graph.nodes > 0) =>
         /\ SpanningTree(graph, TreeEdges)
         /\ \A T \in SUBSET Edges(graph) :
               SpanningTree(graph, T) =>
                  TotalWeight(graph, TreeEdges) <= TotalWeight(graph, T)

----------------------------------------------------------------------------
(* C21 *)

\* the manifest file holds every line of this run's manifest
ManifestSaved == manifestFile = OnDisk(ManifestLines(manifest))

\* the step removes a blob
RemovesBlob == \E b \in DOMAIN store : b \notin DOMAIN store'

\* the run ends otherwise than by completing
RunAborts == pc # "idle" /\ pc' = "idle" /\ result' # "done"

\* C21: the purge pass is reached only with the manifest of the same run
\* completely written; a step that removes a blob is a step of the purge
\* pass, taken with that manifest on disk and leaving it there; and a run
\* that ends by a hash collision, a failed manifest write or any other
\* abort leaves every blob the store held when the run started.
C21_PurgeAfterManifest ==
    /\ [](pc = "purge" => ManifestSaved)
    /\ [][RemovesBlob =>
            /\ pc = "purge" /\ args.purge
            /\ ManifestSaved
            /\ manifestFile' = manifestFile]_vars
    /\ [][RunAborts =>
            \A b \in DOMAIN startStore :
               b \in DOMAIN store' /\ store'[b] = startStore[b]]_vars

\* a run with the purge flag has completed, written a manifest of at least
\* one line and removed a blob the store held when it started
C21_Witness ==
    /\ Completed /\ args.purge
    /\ Len(manifestFile.lines) >= 1
    /\ \E b \in DOMAIN startStore : b \notin DOMAIN store
    /\ \E b \in DOMAIN startStore : b \in DOMAIN store

----------------------------------------------------------------------------
(* C22 *)

\* C22, as claimed: when a backup run has completed, with or without a
\* failed copy, every blob of the store sits in the directory named by the
\* first two characters of its name, and its content hashes to its name.
C22_StoreIntegrity ==
    Completed =>
      \A b \in DOMAIN store :
         /\ b = BlobPath(b[2])
         /\ Sha256(store[b]) = b[2]

====
